---- MODULE Spec2Model ----
(***************************************************************************)
(* Admission control and tri-state partial cache of the vantage API.       *)
(*                                                                         *)
(* The shared Redis store holds three disjoint key spaces:                 *)
(*   ratelimit:<client>  sorted set of request timestamps (rate-limit.ts)  *)
(*   profile:<steamId>   JSON of the cached UserProfile    (cache.ts)      *)
(*   refresh:<steamId>   timestamp of the last forced refresh (cache.ts)   *)
(*   match:<src>:<id>    JSON of an enriched match         (matches.ts)    *)
(* Request handlers are asynchronous: every await on the store is a        *)
(* separate step, so handlers of concurrent requests interleave there.     *)
(* Calls to external collaborators (upstream fetchers, reCAPTCHA, the      *)
(* database) touch no shared state of the model; each is folded into the   *)
(* step that consumes its outcome, the outcome drawn nondeterministically. *)
(*                                                                         *)
(* Time is counted in abstract units; WindowMs, BufferMs and CooldownMs    *)
(* are the program's durations scaled down to a few units.                 *)
(***************************************************************************)
EXTENDS Integers, FiniteSets, Sequences, TLC

\* ---------------------------------------------------------------- bounds
\* Last instant of the model's clock.
MaxTime == 5
\* Number of concurrent direct callers of checkAndRecordRequest.
NumCallers == 2
\* Number of distinct values math.random() is drawn from in the Lua script.
NumRnd == 2
\* DEFAULT_RATE_LIMITS.profile.windowMs (60 * 1000 ms), in model time units.
WindowMs == 3
\* The 60 s the script adds to the key's TTL, in model time units: the
\* shortest buffer, so that an idle client's key expires within MaxTime.
BufferMs == 1
\* DEFAULT_RATE_LIMITS.profile.maxRequests (10 in the source), scaled down.
MaxRequests == 2

\* 10 * 60 * 1000 ms (cache.ts 113) and the marker's TTL of 600 s
\* (cache.ts 98), in model time units.
CooldownMs == 4

\* docs/api.md 13, 470: the documented lifetime of a cached profile (300 s).
DocTtl == 2
\* cache.ts 10: CACHE_TTL, 604800 s, which is 2016 times 300 s.
CacheTtl == 2016 * DocTtl
Callers == 1 .. NumCallers
Rnd == 0 .. (NumRnd - 1)
Times == 1 .. MaxTime

\* ------------------------------------------------ sorted set (rate limit)
\* A sorted-set member is <<score, disambiguator>>: the script's member
\* string is  now .. ':' .. math.random()  and its score is now.
Score(e) == e[1]

\* A variant of ZRemRangeByScore that removes nothing.
ZRemRangeKeepsAll(zset, windowStart) == zset

\* ZREMRANGEBYSCORE key -inf window_start : both ends inclusive.
ZRemRangeByScore(zset, windowStart) == {e \in zset : Score(e) > windowStart}

\* ZCOUNT key window_start +inf
ZCount(zset, windowStart) == Cardinality({e \in zset : Score(e) >= windowStart})

\* ZADD key now member : a member already in the set is not added twice.
ZAdd(zset, t, r) == zset \cup {<<t, r>>}

\* Score of ZRANGE key 0 0 WITHSCORES, or dflt when the set is empty.
OldestScore(zset, dflt) ==
  IF zset = {} THEN dflt
  ELSE CHOOSE s \in {Score(e) : e \in zset} : \A e \in zset : s <= Score(e)

\* A variant of LuaScript that records the request whether or not it is
\* allowed (increment first, as recordRequest does).
LuaScriptRecordsAlways(zset, t, windowStart, limit, r) ==
  LET pruned  == ZRemRangeByScore(zset, windowStart)
      current == ZCount(pruned, windowStart)
      allowed == current < limit
      after   == ZAdd(pruned, t, r)
  IN  [zset    |-> after,
       current |-> IF allowed THEN current + 1 ELSE current,
       oldest  |-> OldestScore(after, t),
       allowed |-> allowed]

\* A variant of LuaScript that returns the count taken before recording.
LuaScriptCountsBefore(zset, t, windowStart, limit, r) ==
  LET pruned  == ZRemRangeByScore(zset, windowStart)
      current == ZCount(pruned, windowStart)
      allowed == current < limit
      after   == IF allowed THEN ZAdd(pruned, t, r) ELSE pruned
  IN  [zset    |-> after,
       current |-> current,
       oldest  |-> OldestScore(after, t),
       allowed |-> allowed]

\* The Lua script of checkAndRecordRequest, run as one atomic unit.
\* t = ARGV[1] (now), windowStart = ARGV[2], limit = ARGV[3]; r is the value
\* math.random() returns.  Result: the set afterwards and {current,
\* oldest_time, allowed}.
LuaScript(zset, t, windowStart, limit, r) ==
  LET pruned  == ZRemRangeByScore(zset, windowStart)
      current == ZCount(pruned, windowStart)
      allowed == current < limit
      after   == IF allowed THEN ZAdd(pruned, t, r) ELSE pruned
  IN  [zset    |-> after,
       current |-> IF allowed THEN current + 1 ELSE current,
       oldest  |-> OldestScore(after, t),
       allowed |-> allowed]

\* A TTL that runs out before the window does.
KeyTtlShort(window) == window - 1

\* EXPIRE key ceil(window / 1000) + 60, issued by the script when it records.
KeyTtl(window) == window + BufferMs

Max0(a) == IF a > 0 THEN a ELSE 0

\* The object checkAndRecordRequest returns, from the script's reply.
RateLimitResult(reply, window, limit) ==
  [allowed      |-> reply.allowed,
   remaining    |-> Max0(limit - reply.current),
   resetTime    |-> reply.oldest + window,
   total        |-> limit,
   currentCount |-> reply.current]


\* ------------------------------------------------ UserProfile (types.ts)
\* The optional fields of a UserProfile; each is undefined (never checked),
\* null (checked, nothing found) or holds a value.
Fields == {"faceit", "leetify", "premier", "competitive", "wingman"}
Keys == {"steam"} \cup Fields

\* Values of leetify: the state of its recent_teammates list, which is
\* missing or empty (tm_none), holds entries without profile info
\* (tm_plain), or holds entries whose first one has a name (tm_named).
LeetifyVals == {"tm_none", "tm_plain", "tm_named"}
ValuesOf(k) == IF k = "leetify" THEN LeetifyVals ELSE {"data"}

\* JavaScript truthiness of a field: a value is an object, so truthy.
Truthy(v) == v \notin {"undefined", "null"}

\* JSON.stringify(profile): a key whose value is undefined is left out,
\* a null is written as null.
Stringify(profile) ==
  [k \in {x \in DOMAIN profile : profile[x] # "undefined"} |-> profile[k]]

\* A parse that gives null for a key the text does not hold.
ParseMissingAsNull(json) ==
  [k \in Keys |-> IF k \in DOMAIN json THEN json[k] ELSE "null"]

\* JSON.parse(text): reading a key the text does not hold gives undefined.
Parse(json) ==
  [k \in Keys |-> IF k \in DOMAIN json THEN json[k] ELSE "undefined"]

\* A local `cached` is <<>> (null) or <<profile>>.
FieldOf(cached, k) == IF cached = <<>> THEN "undefined" ELSE cached[1][k]

\* profile.ts 91-101: the names of needsFetch that are true.
NeedsFetch(cached) ==
  {k \in Keys :
     IF k = "steam" THEN cached = <<>>
     ELSE cached = <<>> \/ (~Truthy(cached[1][k]) /\ cached[1][k] # "null")}
  \cup (IF cached = <<>> \/ FieldOf(cached, "leetify") # "tm_named"
          THEN {"leetifyTeammates"} ELSE {})

\* What an upstream fetcher can settle with: v is the value the promise
\* pushed at profile.ts 119-142 fulfils with ("undefined": it rejects) and
\* err tells whether the upstream call failed (error or timeout) rather
\* than answered.  FaceitService.getStats and LeetifyService.getStats
\* return null from their own catch blocks; the cs2 fetchers are followed
\* by .catch(() => null); SteamService.getProfile throws.
Upstream(k) ==
  IF k = "steam"
    THEN {[v |-> "data", err |-> FALSE], [v |-> "undefined", err |-> TRUE]}
  ELSE IF k = "leetify"
    THEN {[v |-> "tm_none", err |-> FALSE], [v |-> "tm_plain", err |-> FALSE],
          [v |-> "null", err |-> FALSE], [v |-> "null", err |-> TRUE]}
  ELSE {[v |-> "data", err |-> FALSE],
        [v |-> "null", err |-> FALSE], [v |-> "null", err |-> TRUE]}

\* An upstream whose cs2 rank services always answer "not found".
UpstreamQuiet(k) ==
  IF k \in {"premier", "competitive", "wingman"}
    THEN {[v |-> "null", err |-> FALSE]}
    ELSE Upstream(k)

\* An upstream that answers every optional field (found or not found) and
\* can fail only on the Steam profile.
UpstreamAnswers(k) == {o \in Upstream(k) : k = "steam" \/ ~o.err}

\* An upstream that answers, its cs2 rank services with "not found".
UpstreamRace(k) == UpstreamQuiet(k) \cap UpstreamAnswers(k)

\* An upstream that answers and finds every profile it is asked for.
UpstreamFound(k) == {o \in Upstream(k) : ~o.err /\ Truthy(o.v)}

\* The upstream of an environment: "all" (every outcome), "answers",
\* "found" or "race".
UpstreamOf(up, k) ==
  IF up = "all" THEN Upstream(k)
  ELSE IF up = "answers" THEN UpstreamAnswers(k)
  ELSE IF up = "found" THEN UpstreamFound(k)
  ELSE UpstreamRace(k)

\* The ways the fetches of `keys` can settle (Promise.allSettled, profile.ts
\* 144); a key that is not fetched has no promise.
NotFetched == [v |-> "undefined", err |-> FALSE]
Settled(keys, up) ==
  LET S(k) == IF k \in keys THEN UpstreamOf(up, k) ELSE {NotFetched}
  IN  {[steam |-> a, faceit |-> b, leetify |-> c, premier |-> d,
        competitive |-> e, wingman |-> f] :
         a \in S("steam"), b \in S("faceit"), c \in S("leetify"),
         d \in S("premier"), e \in S("competitive"), f \in S("wingman")}

\* profile.ts 144-151: fetchedData, from the settled promises `out` of the
\* keys that were fetched.
FetchedData(needs, out) ==
  [k \in Keys |-> IF k \in needs THEN out[k].v ELSE "undefined"]

\* profile.ts 155-160: merge cached data with newly fetched data.
MergeField(k, cached, fetchedData) ==
  IF k = "steam"
    THEN IF Truthy(fetchedData[k]) THEN fetchedData[k] ELSE FieldOf(cached, k)
  ELSE IF fetchedData[k] # "undefined" THEN fetchedData[k]
  ELSE IF FieldOf(cached, k) \in {"undefined", "null"} THEN "null"
  ELSE FieldOf(cached, k)

\* profile.ts 166-186: the teammate pass runs when asked for and the merged
\* leetify has teammates; named tells whether the first teammate's Steam
\* profile could be fetched.
Enrich(needs, leetify, named) ==
  IF "leetifyTeammates" \in needs /\ leetify \in {"tm_plain", "tm_named"}
    THEN IF named THEN "tm_named" ELSE leetify
    ELSE leetify

\* profile.ts 195-204: build the profile (null kept, falsy made undefined).
BuildField(v) == IF v = "null" THEN "null" ELSE IF Truthy(v) THEN v ELSE "undefined"

\* profile.ts 153-204: the profile GET /profile/:id persists.
MergedProfile(cached, needs, out, named) ==
  LET fd == FetchedData(needs, out)
  IN  [k \in Keys |->
         IF k = "steam" THEN MergeField(k, cached, fd)
         ELSE IF k = "leetify"
           THEN BuildField(Enrich(needs, MergeField(k, cached, fd), named))
         ELSE BuildField(MergeField(k, cached, fd))]

\* worker.ts 56-72: the profile the background worker persists.
WorkerProfile(out) ==
  [k \in Keys |->
     IF k = "steam" THEN out[k].v
     ELSE IF k \in {"faceit", "leetify"}
       THEN IF Truthy(out[k].v) THEN out[k].v ELSE "undefined"
     ELSE "undefined"]

\* An update that takes the fresh faceit and leetify outcome as it comes,
\* null included.
UpdatedProfileTakesFresh(cached, out) ==
  [k \in Keys |->
     IF k \in {"faceit", "leetify"} THEN out[k].v ELSE cached[k]]

\* profile.ts 327-335: refresh-matches spreads the cached profile and
\* replaces faceit and leetify by fresh data when there is some.
UpdatedProfile(cached, out) ==
  [k \in Keys |->
     IF k \in {"faceit", "leetify"} /\ Truthy(out[k].v) THEN out[k].v
     ELSE cached[k]]

VARIABLES
  now,        \* the clock: Date.now() and the store's expiry clock
  redisUp,    \* whether the store answers commands
  rlSet,      \* ratelimit:<client>: the sorted set of the client key
  rlExpire,   \* instant at which the key ratelimit:<client> expires (0: no TTL)
  call,       \* direct callers of checkAndRecordRequest: pc, timestamp, result
  allowedLog, \* history: per timestamp, how many calls with it were allowed
  profileKey, \* profile:<steamId>: <<>> (no key) or <<the stored JSON object>>
  refreshKey, \* refresh:<steamId>: 0 (no key) or the stored timestamp
  matchKey,   \* match:<src>:<id>: whether the key holds an enriched match
  req,        \* the request (or job) each process is handling
  ev,         \* history: what the last step did to the store and upstream
  refreshed   \* history: a refresh succeeded and no GET /profile arrived since

vars == <<now, redisUp, rlSet, rlExpire, call, allowedLog,
          profileKey, refreshKey, matchKey, req, ev, refreshed>>
\* What the direct callers of the gate leave alone.
handlerVars == <<profileKey, refreshKey, matchKey, req, ev, refreshed>>
gateVars == <<rlSet, rlExpire, call, allowedLog>>

NoEv == [type |-> "none", p |-> 0, ok |-> TRUE, fetched |-> {}, failed |-> {}]
NoResult == [allowed |-> FALSE, remaining |-> 0, resetTime |-> 0, total |-> 0, currentCount |-> 0]
IdleCall == [pc |-> "idle", t |-> 0, res |-> NoResult]

\* The key's sorted set and TTL after the script ran at store time `at`.
RlExpireAfter(reply, at, window) ==
  IF reply.allowed THEN at + KeyTtl(window)
  ELSE IF reply.zset = {} THEN 0 ELSE rlExpire

LogCap == MaxRequests + 1
LogAllowed(t) == [allowedLog EXCEPT ![t] = IF @ < LogCap THEN @ + 1 ELSE @]

\* --------------------------------------------------------------- the clock
\* Time passes; a key whose TTL has run out is removed by the store.  The
\* refresh marker is written with a TTL of the cooldown (cache.ts 98).
Tick ==
  /\ now < MaxTime
  /\ now' = now + 1
  /\ IF rlExpire # 0 /\ rlExpire <= now + 1
       THEN rlSet' = {} /\ rlExpire' = 0
       ELSE UNCHANGED <<rlSet, rlExpire>>
  /\ refreshKey' = IF refreshKey # 0 /\ refreshKey + CooldownMs <= now + 1
                     THEN 0 ELSE refreshKey
  /\ profileKey' = IF profileKey # <<>> /\ profileKey[2] <= now + 1
                     THEN <<>> ELSE profileKey
  /\ ev' = NoEv
  /\ UNCHANGED <<redisUp, call, allowedLog, matchKey, req, refreshed>>

\* ------------------------------------ direct calls of checkAndRecordRequest
\* rate-limit.ts 260-264: the caller reads Date.now() and sends the script.
GateStamp(c) ==
  /\ call[c].pc = "idle"
  /\ call' = [call EXCEPT ![c] = [pc |-> "sent", t |-> now, res |-> NoResult]]
  /\ UNCHANGED <<now, redisUp, rlSet, rlExpire, allowedLog, handlerVars>>

\* The values math.random() can return for a member stamped t.  A store
\* whose script generator is seeded anew for every run can repeat a value
\* (Draws); one that never repeats gives a member not yet in the set
\* (DistinctDraws).
Draws(t) == Rnd
DistinctDraws(t) ==
  LET free == {r \in Rnd : <<t, r>> \notin rlSet}
  IN  IF free = {} THEN Rnd ELSE free

\* rate-limit.ts 267-321: the store runs the script and the caller builds
\* the result.
Eval(c, r) ==
  LET t     == call[c].t
      reply == LuaScript(rlSet, t, t - WindowMs, MaxRequests, r)
  IN  /\ rlSet' = reply.zset
      /\ rlExpire' = RlExpireAfter(reply, now, WindowMs)
      /\ call' = [call EXCEPT ![c] = [pc |-> "idle", t |-> t,
                                      res |-> RateLimitResult(reply, WindowMs, MaxRequests)]]
      /\ allowedLog' = IF reply.allowed THEN LogAllowed(t) ELSE allowedLog
      /\ UNCHANGED <<now, redisUp, handlerVars>>

GateEval(c) ==
  /\ call[c].pc = "sent"
  /\ redisUp
  /\ \E r \in Draws(call[c].t) : Eval(c, r)

GateEvalDistinct(c) ==
  /\ call[c].pc = "sent"
  /\ redisUp
  /\ \E r \in DistinctDraws(call[c].t) : Eval(c, r)

\* ------------------------------------------- calls of getRateLimitStatus
\* rate-limit.ts 219-223: the caller reads Date.now().
StatusStamp(c) ==
  /\ call[c].pc = "idle"
  /\ call' = [call EXCEPT ![c] = [pc |-> "statusSent", t |-> now, res |-> NoResult]]
  /\ UNCHANGED <<now, redisUp, rlSet, rlExpire, allowedLog, handlerVars>>

\* rate-limit.ts 225-235: the pipeline prunes and counts; the store drops a
\* key whose set has become empty.
StatusPipeline(c) ==
  /\ call[c].pc = "statusSent"
  /\ redisUp
  /\ LET windowStart == call[c].t - WindowMs
         pruned      == ZRemRangeByScore(rlSet, windowStart)
     IN  /\ rlSet' = pruned
         /\ rlExpire' = IF pruned = {} THEN 0 ELSE rlExpire
         /\ call' = [call EXCEPT ![c].pc = "statusCounted",
                                 ![c].res.currentCount = ZCount(pruned, windowStart)]
  /\ UNCHANGED <<now, redisUp, allowedLog, handlerVars>>

\* The object getRateLimitStatus returns (rate-limit.ts 239-247), from the
\* count of the pipeline and the score of the oldest entry.
StatusResult(currentCount, oldestTimestamp, window, limit) ==
  [remaining    |-> Max0(limit - currentCount),
   resetTime    |-> oldestTimestamp + window,
   total        |-> limit,
   currentCount |-> currentCount]

\* rate-limit.ts 237-247: a second command reads the oldest entry; without
\* one the caller's now stands in for its timestamp.
StatusRange(c) ==
  /\ call[c].pc = "statusCounted"
  /\ redisUp
  /\ call' = [call EXCEPT ![c] =
       [pc |-> "idle", t |-> call[c].t,
        res |-> StatusResult(call[c].res.currentCount,
                             OldestScore(rlSet, call[c].t), WindowMs, MaxRequests)]]
  /\ UNCHANGED <<now, redisUp, rlSet, rlExpire, allowedLog, handlerVars>>


\* ------------------------------------------------------- request handlers
NumProcs == 2
Procs == 1 .. NumProcs

IdleReq ==
  [kind |-> "none", pc |-> "idle", tok |-> "none", spam |-> FALSE, t |-> 0,
   prof |-> <<>>, failed |-> {}, after |-> FALSE,
   resp |-> "none", probes |-> 0, access |-> "none", mates |-> <<>>,
   pending |-> {}, got |-> <<>>,
   ip |-> <<>>, ua |-> <<>>, xff |-> <<>>, key |-> <<>>]

Event(type, p, ok, fetched, failed) ==
  [type |-> type, p |-> p, ok |-> ok, fetched |-> fetched, failed |-> failed]

\* History: the request's first access to admission, cooldown or cache
\* state came after a health probe ("probed") or without one ("unprobed").
Touch(r) ==
  IF r.access # "none" THEN r.access
  ELSE IF r.probes > 0 THEN "probed" ELSE "unprobed"

\* The request ends with status `code`; its locals are dropped.
Respond(r, code) ==
  [IdleReq EXCEPT !.kind = r.kind, !.pc = "done", !.resp = code,
                  !.probes = r.probes, !.access = r.access, !.after = r.after]

\* The store goes down or comes back (the environment).
RedisFails ==
  /\ redisUp
  /\ redisUp' = FALSE
  /\ ev' = NoEv
  /\ UNCHANGED <<now, gateVars, profileKey, refreshKey, matchKey, req, refreshed>>

RedisRecovers ==
  /\ ~redisUp
  /\ redisUp' = TRUE
  /\ ev' = NoEv
  /\ UNCHANGED <<now, gateVars, profileKey, refreshKey, matchKey, req, refreshed>>

\* A request arrives: GET /profile/:id with or without a recaptcha_token
\* (one that verifies or one that does not), flagged by the spam middleware
\* or not.
ReceiveProfile(p) ==
  /\ req[p].pc = "idle"
  /\ \E tok \in {"none", "valid", "invalid"}, spam \in BOOLEAN :
       req' = [req EXCEPT ![p] = [IdleReq EXCEPT !.kind = "profile", !.pc = "health",
                                                 !.tok = tok, !.spam = spam,
                                                 !.after = refreshed]]
  /\ refreshed' = FALSE
  /\ ev' = NoEv
  /\ UNCHANGED <<now, redisUp, gateVars, profileKey, refreshKey, matchKey>>

\* POST /profile/:id/refresh, POST /profile/:id/refresh-matches,
\* GET /matches/:dataSource/:dataSourceId, or a profile-updates job.
Receive(p, kind, pc) ==
  /\ req[p].pc = "idle"
  /\ req' = [req EXCEPT ![p] = [IdleReq EXCEPT !.kind = kind, !.pc = pc]]
  /\ ev' = NoEv
  /\ UNCHANGED <<now, redisUp, gateVars, profileKey, refreshKey, matchKey, refreshed>>

ReceiveRefresh(p) == Receive(p, "refresh", "canRefresh")
ReceiveRefreshMatches(p) == Receive(p, "refreshMatches", "rmRead")
ReceiveMatch(p) == Receive(p, "match", "mRead")
ReceiveJob(p) == Receive(p, "worker", "wFetch")

\* The response has been sent; the process is free again.
Finish(p) ==
  /\ req[p].pc = "done"
  /\ req' = [req EXCEPT ![p] = IdleReq]
  /\ ev' = NoEv
  /\ UNCHANGED <<now, redisUp, gateVars, profileKey, refreshKey, matchKey, refreshed>>

\* A fail-open variant of Health: the probe's answer is ignored and the
\* handler goes on to the gate.
HealthFailOpen(p) ==
  /\ req[p].kind = "profile" /\ req[p].pc = "health"
  /\ req' = [req EXCEPT ![p] = [req[p] EXCEPT !.probes = @ + 1, !.pc = "rate", !.t = now]]
  /\ ev' = Event("health", p, redisUp, {}, {})
  /\ UNCHANGED <<now, redisUp, gateVars, profileKey, refreshKey, matchKey, refreshed>>

\* profile.ts 36-45 with isRedisHealthy (rate-limit.ts 117-125): the probe.
\* A healthy store lets the handler go on to checkAndRecordRequest, which
\* reads Date.now() (rate-limit.ts 261) before it sends the script.
Health(p) ==
  /\ req[p].kind = "profile" /\ req[p].pc = "health"
  /\ LET r == [req[p] EXCEPT !.probes = @ + 1]
     IN  req' = [req EXCEPT ![p] =
                   IF redisUp THEN [r EXCEPT !.pc = "rate", !.t = now]
                              ELSE Respond(r, "503")]
  /\ ev' = Event("health", p, redisUp, {}, {})
  /\ UNCHANGED <<now, redisUp, gateVars, profileKey, refreshKey, matchKey, refreshed>>

\* A variant of Rate in which a verified token empties the client's window
\* (a quota refill).
RateRefillsOnToken(p) ==
  /\ req[p].kind = "profile" /\ req[p].pc = "rate"
  /\ LET r == [req[p] EXCEPT !.access = Touch(req[p])]
     IN  IF ~redisUp
           THEN /\ req' = [req EXCEPT ![p] = Respond(r, "400")]
                /\ ev' = Event("rate", p, FALSE, {}, {})
                /\ UNCHANGED <<rlSet, rlExpire>>
           ELSE \E d \in Draws(r.t), resolved \in BOOLEAN :
                  LET reply == LuaScript(rlSet, r.t, r.t - WindowMs, MaxRequests, d)
                      res   == RateLimitResult(reply, WindowMs, MaxRequests)
                  IN  /\ rlSet' = IF ~res.allowed /\ r.tok = "valid" THEN {} ELSE reply.zset
                      /\ rlExpire' = RlExpireAfter(reply, now, WindowMs)
                      /\ req' = [req EXCEPT ![p] =
                           IF (~res.allowed \/ r.spam) /\ r.tok = "none"
                             THEN Respond(r, "429")
                           ELSE IF (~res.allowed \/ r.spam) /\ r.tok = "invalid"
                             THEN Respond(r, "400")
                           ELSE IF ~resolved THEN Respond(r, "400")
                           ELSE [r EXCEPT !.pc = "cache", !.tok = "none",
                                          !.spam = FALSE, !.t = 0]]
                      /\ ev' = Event(IF res.allowed THEN "rate" ELSE "rateDenied",
                                     p, TRUE, {}, {})
  /\ UNCHANGED <<now, redisUp, call, allowedLog, profileKey, refreshKey, matchKey, refreshed>>

\* A variant of Rate that asks for a token only when the script denied the
\* request, not when the spam signal flagged it.
RateIgnoresSpamSignal(p) ==
  /\ req[p].kind = "profile" /\ req[p].pc = "rate"
  /\ LET r == [req[p] EXCEPT !.access = Touch(req[p])]
     IN  IF ~redisUp
           THEN /\ req' = [req EXCEPT ![p] = Respond(r, "400")]
                /\ ev' = Event("rate", p, FALSE, {}, {})
                /\ UNCHANGED <<rlSet, rlExpire>>
           ELSE \E d \in Draws(r.t), resolved \in BOOLEAN :
                  LET reply == LuaScript(rlSet, r.t, r.t - WindowMs, MaxRequests, d)
                      res   == RateLimitResult(reply, WindowMs, MaxRequests)
                  IN  /\ rlSet' = reply.zset
                      /\ rlExpire' = RlExpireAfter(reply, now, WindowMs)
                      /\ req' = [req EXCEPT ![p] =
                           IF (~res.allowed) /\ r.tok = "none"
                             THEN Respond(r, "429")
                           ELSE IF (~res.allowed) /\ r.tok = "invalid"
                             THEN Respond(r, "400")
                           ELSE IF ~resolved THEN Respond(r, "400")
                           ELSE [r EXCEPT !.pc = "cache", !.tok = "none",
                                          !.spam = FALSE, !.t = 0]]
                      /\ ev' = Event(IF res.allowed THEN "rate" ELSE "rateDenied",
                                     p, TRUE, {}, {})
  /\ UNCHANGED <<now, redisUp, call, allowedLog, profileKey, refreshKey, matchKey, refreshed>>

\* profile.ts 51-87: the script runs; a denied or flagged request needs a
\* token that verifies; then the id is resolved.  A store error makes eval
\* reject, which the handler's catch (219-226) answers with 400.  The
\* history records whether the script denied the request ("rateDenied").
Rate(p) ==
  /\ req[p].kind = "profile" /\ req[p].pc = "rate"
  /\ LET r == [req[p] EXCEPT !.access = Touch(req[p])]
     IN  IF ~redisUp
           THEN /\ req' = [req EXCEPT ![p] = Respond(r, "400")]
                /\ ev' = Event("rate", p, FALSE, {}, {})
                /\ UNCHANGED <<rlSet, rlExpire>>
           ELSE \E d \in Draws(r.t), resolved \in BOOLEAN :
                  LET reply == LuaScript(rlSet, r.t, r.t - WindowMs, MaxRequests, d)
                      res   == RateLimitResult(reply, WindowMs, MaxRequests)
                  IN  /\ rlSet' = reply.zset
                      /\ rlExpire' = RlExpireAfter(reply, now, WindowMs)
                      /\ req' = [req EXCEPT ![p] =
                           IF (~res.allowed \/ r.spam) /\ r.tok = "none"
                             THEN Respond(r, "429")
                           ELSE IF (~res.allowed \/ r.spam) /\ r.tok = "invalid"
                             THEN Respond(r, "400")
                           ELSE IF ~resolved THEN Respond(r, "400")
                           ELSE [r EXCEPT !.pc = "cache", !.tok = "none",
                                          !.spam = FALSE, !.t = 0]]
                      /\ ev' = Event(IF res.allowed THEN "rate" ELSE "rateDenied",
                                     p, TRUE, {}, {})
  /\ UNCHANGED <<now, redisUp, call, allowedLog, profileKey, refreshKey, matchKey, refreshed>>

\* cache.ts 13-40: getProfile; a store error is caught and null returned.
GetProfile ==
  IF redisUp /\ profileKey # <<>> THEN <<Parse(profileKey[1])>> ELSE <<>>

\* cache.ts 42-52: setProfile; a store error is caught and dropped.
SetProfile(profile) ==
  IF redisUp THEN <<Stringify(profile), now + CacheTtl>> ELSE profileKey

\* The time the stored record was written.
WrittenAt == profileKey[2] - CacheTtl

\* profile.ts 89-204: read the cache, fetch what is missing, merge.  up
\* names the upstream the fetchers talk to.
ProfileCache(p, up) ==
  /\ req[p].kind = "profile" /\ req[p].pc = "cache"
  /\ LET r      == [req[p] EXCEPT !.access = Touch(req[p])]
         cached == GetProfile
         needs  == NeedsFetch(cached)
         keys   == needs \cap Keys
     IN  IF needs = {}
           THEN /\ req' = [req EXCEPT ![p] = Respond(r, "200")]
                /\ ev' = Event("cache", p, redisUp, {}, {})
           ELSE \E out \in Settled(keys, up), named \in BOOLEAN :
                  /\ LET profile == MergedProfile(cached, needs, out, named)
                     IN  req' = [req EXCEPT ![p] =
                           IF ~Truthy(profile.steam) THEN Respond(r, "400")
                           ELSE [r EXCEPT !.pc = "persist", !.prof = <<profile>>,
                                          !.failed = {k \in keys : out[k].err}]]
                  /\ ev' = Event("cache", p, redisUp, keys, {k \in keys : out[k].err})
  /\ UNCHANGED <<now, redisUp, gateVars, profileKey, refreshKey, matchKey, refreshed>>

\* profile.ts 206-217: upsertUser, setProfile and incrementStat are started
\* together; a database rejection makes Promise.all reject (400).
Persist(p) ==
  /\ req[p].kind = "profile" /\ req[p].pc = "persist"
  /\ profileKey' = SetProfile(req[p].prof[1])
  /\ \E dbOk \in BOOLEAN :
       req' = [req EXCEPT ![p] = Respond(req[p], IF dbOk THEN "200" ELSE "400")]
  /\ ev' = Event("persist", p, redisUp, {}, req[p].failed)
  /\ UNCHANGED <<now, redisUp, gateVars, refreshKey, matchKey, refreshed>>


\* cache.ts 85-125: canRefresh; getLastRefreshTime returns null on a store
\* error and for a missing marker, and both are answered allowed.
CanRefresh ==
  LET lastRefresh == IF redisUp THEN refreshKey ELSE 0
  IN  IF lastRefresh = 0 THEN [allowed |-> TRUE, waitTime |-> 0]
      ELSE IF now - lastRefresh < CooldownMs
        THEN [allowed |-> FALSE, waitTime |-> CooldownMs - (now - lastRefresh)]
      ELSE [allowed |-> TRUE, waitTime |-> 0]

\* A cooldown check that drops the cached record before it answers.
RefreshCheckInvalidatesFirst(p) ==
  /\ req[p].kind = "refresh" /\ req[p].pc = "canRefresh"
  /\ \E resolved \in BOOLEAN :
       IF ~resolved
         THEN /\ req' = [req EXCEPT ![p] = Respond(req[p], "400")]
              /\ ev' = NoEv
              /\ UNCHANGED profileKey
         ELSE LET r == [req[p] EXCEPT !.access = Touch(req[p])]
              IN  /\ req' = [req EXCEPT ![p] =
                       IF CanRefresh.allowed THEN [r EXCEPT !.pc = "invalidate"]
                                             ELSE Respond(r, "429")]
                  /\ ev' = Event("canRefresh", p, redisUp, {}, {})
                  /\ profileKey' = IF redisUp THEN <<>> ELSE profileKey
  /\ UNCHANGED <<now, redisUp, gateVars, refreshKey, matchKey, refreshed>>

\* profile.ts 263-278: resolve the id, then the cooldown check.
RefreshCheck(p) ==
  /\ req[p].kind = "refresh" /\ req[p].pc = "canRefresh"
  /\ \E resolved \in BOOLEAN :
       IF ~resolved
         THEN /\ req' = [req EXCEPT ![p] = Respond(req[p], "400")]
              /\ ev' = NoEv
         ELSE LET r == [req[p] EXCEPT !.access = Touch(req[p])]
              IN  /\ req' = [req EXCEPT ![p] =
                       IF CanRefresh.allowed THEN [r EXCEPT !.pc = "invalidate"]
                                             ELSE Respond(r, "429")]
                  /\ ev' = Event("canRefresh", p, redisUp, {}, {})
  /\ UNCHANGED <<now, redisUp, gateVars, profileKey, refreshKey, matchKey, refreshed>>

\* An invalidation that removes the entity's refresh marker together with
\* its profile record.
RefreshInvalidateClearsMarker(p) ==
  /\ req[p].kind = "refresh" /\ req[p].pc = "invalidate"
  /\ profileKey' = IF redisUp THEN <<>> ELSE profileKey
  /\ refreshKey' = IF redisUp THEN 0 ELSE refreshKey
  /\ req' = [req EXCEPT ![p].pc = "setRefresh"]
  /\ ev' = Event("invalidate", p, redisUp, {}, {})
  /\ UNCHANGED <<now, redisUp, gateVars, matchKey, refreshed>>

\* profile.ts 280-281 with invalidateProfile (cache.ts 54-60): a store error
\* is caught and dropped.
RefreshInvalidate(p) ==
  /\ req[p].kind = "refresh" /\ req[p].pc = "invalidate"
  /\ profileKey' = IF redisUp THEN <<>> ELSE profileKey
  /\ req' = [req EXCEPT ![p].pc = "setRefresh"]
  /\ ev' = Event("invalidate", p, redisUp, {}, {})
  /\ UNCHANGED <<now, redisUp, gateVars, refreshKey, matchKey, refreshed>>

\* profile.ts 283-290 with setLastRefreshTime (cache.ts 95-102).
RefreshRecord(p) ==
  /\ req[p].kind = "refresh" /\ req[p].pc = "setRefresh"
  /\ refreshKey' = IF redisUp THEN now ELSE refreshKey
  /\ req' = [req EXCEPT ![p] = Respond(req[p], "200")]
  /\ ev' = Event("setRefresh", p, redisUp, {}, {})
  /\ refreshed' = TRUE
  /\ UNCHANGED <<now, redisUp, gateVars, profileKey, matchKey>>

\* profile.ts 307-335: read the cached profile, fetch faceit and leetify,
\* build the updated profile.
MatchesRead(p, up) ==
  /\ req[p].kind = "refreshMatches" /\ req[p].pc = "rmRead"
  /\ \E resolved \in BOOLEAN :
       IF ~resolved
         THEN /\ req' = [req EXCEPT ![p] = Respond(req[p], "400")]
              /\ ev' = NoEv
         ELSE LET r      == [req[p] EXCEPT !.access = Touch(req[p])]
                  cached == GetProfile
                  keys   == {"faceit", "leetify"}
              IN  IF cached = <<>>
                    THEN /\ req' = [req EXCEPT ![p] = Respond(r, "404")]
                         /\ ev' = Event("rmRead", p, redisUp, {}, {})
                    ELSE \E out \in Settled(keys, up) :
                           /\ req' = [req EXCEPT ![p] =
                                [r EXCEPT !.pc = "rmWrite",
                                          !.prof = <<UpdatedProfile(cached[1], out)>>]]
                           /\ ev' = Event("rmRead", p, redisUp, keys,
                                          {k \in keys : out[k].err})
  /\ UNCHANGED <<now, redisUp, gateVars, profileKey, refreshKey, matchKey, refreshed>>

\* profile.ts 337-344: save the updated profile.
MatchesWrite(p) ==
  /\ req[p].kind = "refreshMatches" /\ req[p].pc = "rmWrite"
  /\ profileKey' = SetProfile(req[p].prof[1])
  /\ req' = [req EXCEPT ![p] = Respond(req[p], "200")]
  /\ ev' = Event("rmWrite", p, redisUp, {}, {})
  /\ UNCHANGED <<now, redisUp, gateVars, refreshKey, matchKey, refreshed>>

\* matches.ts 23-49: cacheService.get (a store error reads as a miss), then
\* the match is fetched; found tells whether Leetify returned it.
MatchRead(p) ==
  /\ req[p].kind = "match" /\ req[p].pc = "mRead"
  /\ LET r == [req[p] EXCEPT !.access = Touch(req[p])]
     IN  IF redisUp /\ matchKey
           THEN req' = [req EXCEPT ![p] = Respond(r, "200")]
           ELSE \E found \in BOOLEAN :
                  req' = [req EXCEPT ![p] =
                    IF found THEN [r EXCEPT !.pc = "mWrite"] ELSE Respond(r, "404")]
  /\ ev' = Event("mRead", p, redisUp, {}, {})
  /\ UNCHANGED <<now, redisUp, gateVars, profileKey, refreshKey, matchKey, refreshed>>

\* matches.ts 76-83: cacheService.set (a store error is dropped).
MatchWrite(p) ==
  /\ req[p].kind = "match" /\ req[p].pc = "mWrite"
  /\ matchKey' = (redisUp \/ matchKey)
  /\ req' = [req EXCEPT ![p] = Respond(req[p], "200")]
  /\ ev' = Event("mWrite", p, redisUp, {}, {})
  /\ UNCHANGED <<now, redisUp, gateVars, profileKey, refreshKey, refreshed>>

\* A worker that goes on to write whether or not the Steam profile came.
JobFetchWithoutSteamCheck(p, up) ==
  /\ req[p].kind = "worker" /\ req[p].pc = "wFetch"
  /\ LET keys == {"steam", "faceit", "leetify"}
     IN  \E out \in Settled(keys, up) :
           /\ req' = [req EXCEPT ![p] =
                [req[p] EXCEPT !.pc = "wWrite", !.prof = <<WorkerProfile(out)>>]]
           /\ ev' = Event("wFetch", p, TRUE, keys, {k \in keys : out[k].err})
  /\ UNCHANGED <<now, redisUp, gateVars, profileKey, refreshKey, matchKey, refreshed>>

\* worker.ts 44-72: fetch steam, faceit and leetify; without a Steam
\* profile the job fails.
JobFetch(p, up) ==
  /\ req[p].kind = "worker" /\ req[p].pc = "wFetch"
  /\ LET keys == {"steam", "faceit", "leetify"}
     IN  \E out \in Settled(keys, up) :
           /\ req' = [req EXCEPT ![p] =
                IF ~Truthy(out["steam"].v) THEN Respond(req[p], "failed")
                ELSE [req[p] EXCEPT !.pc = "wWrite", !.prof = <<WorkerProfile(out)>>]]
           /\ ev' = Event("wFetch", p, TRUE, keys, {k \in keys : out[k].err})
  /\ UNCHANGED <<now, redisUp, gateVars, profileKey, refreshKey, matchKey, refreshed>>

\* worker.ts 74-82: update database and cache.
JobWrite(p) ==
  /\ req[p].kind = "worker" /\ req[p].pc = "wWrite"
  /\ profileKey' = SetProfile(req[p].prof[1])
  /\ \E dbOk \in BOOLEAN :
       req' = [req EXCEPT ![p] = Respond(req[p], IF dbOk THEN "completed" ELSE "failed")]
  /\ ev' = Event("wWrite", p, redisUp, {}, {})
  /\ UNCHANGED <<now, redisUp, gateVars, refreshKey, matchKey, refreshed>>

\* ---------------------------------------------------------- specifications
Init ==
  /\ now = 1
  /\ redisUp = TRUE
  /\ rlSet = {}
  /\ rlExpire = 0
  /\ call = [c \in Callers |-> IdleCall]
  /\ allowedLog = [t \in Times |-> 0]
  /\ profileKey = <<>>
  /\ refreshKey = 0
  /\ matchKey = FALSE
  /\ req = [p \in Procs |-> IdleReq]
  /\ ev = NoEv
  /\ refreshed = FALSE

\* One step of the handler process p, against the upstream up.
Step(p, up) ==
  \/ ReceiveProfile(p)
  \/ ReceiveRefresh(p)
  \/ ReceiveRefreshMatches(p)
  \/ ReceiveMatch(p)
  \/ ReceiveJob(p)
  \/ Health(p)
  \/ Rate(p)
  \/ ProfileCache(p, up)
  \/ Persist(p)
  \/ RefreshCheck(p)
  \/ RefreshInvalidate(p)
  \/ RefreshRecord(p)
  \/ MatchesRead(p, up)
  \/ MatchesWrite(p)
  \/ MatchRead(p)
  \/ MatchWrite(p)
  \/ JobFetch(p, up)
  \/ JobWrite(p)
  \/ Finish(p)

\* One request at a time, a store that can fail, an upstream that answers.
Next ==
  \/ RedisFails
  \/ RedisRecovers
  \/ Step(1, "answers")

Spec == Init /\ [][Next]_vars

\* One request at a time, a store that stays up, every upstream outcome.
NextFetch == Step(1, "all")

SpecFetch == Init /\ [][NextFetch]_vars

\* Concurrent requests on one profile: GET /profile, refresh and
\* refresh-matches on a store that stays up, the cs2 rank services
\* answering "not found" and the other upstreams answering.
StepRace(p) ==
  \/ ReceiveProfile(p)
  \/ ReceiveRefresh(p)
  \/ ReceiveRefreshMatches(p)
  \/ Health(p)
  \/ Rate(p)
  \/ ProfileCache(p, "race")
  \/ Persist(p)
  \/ RefreshCheck(p)
  \/ RefreshInvalidate(p)
  \/ RefreshRecord(p)
  \/ MatchesRead(p, "race")
  \/ MatchesWrite(p)
  \/ Finish(p)

NextRace == \E p \in Procs : StepRace(p)

SpecRace == Init /\ [][NextRace]_vars

InitGate == Init

NextGate ==
  \/ Tick
  \/ \E c \in Callers : GateStamp(c)
  \/ \E c \in Callers : GateEval(c)

SpecGate == InitGate /\ [][NextGate]_vars

\* The gate on a store whose math.random() never repeats a value.
NextGateDistinct ==
  \/ Tick
  \/ \E c \in Callers : GateStamp(c)
  \/ \E c \in Callers : GateEvalDistinct(c)

SpecGateDistinct == InitGate /\ [][NextGateDistinct]_vars

\* Forced refreshes of one profile over time, one request at a time, on a
\* store that can fail.
NextCooldown ==
  \/ Tick
  \/ RedisFails
  \/ RedisRecovers
  \/ ReceiveRefresh(1)
  \/ RefreshCheck(1)
  \/ RefreshInvalidate(1)
  \/ RefreshRecord(1)
  \/ Finish(1)

SpecCooldown == Init /\ [][NextCooldown]_vars

\* GET /profile/:id requests of one client over time, one at a time, on a
\* store that can fail, for a profile every upstream knows.
NextAdmit ==
  \/ Tick
  \/ RedisFails
  \/ RedisRecovers
  \/ ReceiveProfile(1)
  \/ Health(1)
  \/ Rate(1)
  \/ ProfileCache(1, "found")
  \/ Persist(1)
  \/ Finish(1)

SpecAdmit == Init /\ [][NextAdmit]_vars

\* The gate and its status query on one client key, over time.
NextStatus ==
  \/ Tick
  \/ \E c \in Callers : GateStamp(c)
  \/ \E c \in Callers : GateEval(c)
  \/ \E c \in Callers : StatusStamp(c)
  \/ \E c \in Callers : StatusPipeline(c)
  \/ \E c \in Callers : StatusRange(c)

SpecStatus == InitGate /\ [][NextStatus]_vars

\* ------------------------------------------------- the teammate pass
\* profile.ts 169: the pass looks at the first six teammates.
SliceLen == 6
\* The longest recent_teammates list Leetify answers with.
MaxMates == 7

\* types.ts 132-137: a recent teammate, as Leetify lists it (no name yet).
Teammate(i) == [id |-> i, name |-> "none"]
TeammateLists == {[i \in 1 .. n |-> Teammate(i)] : n \in 0 .. MaxMates}

\* Array.prototype.slice(0, n).
Slice(list, n) == SubSeq(list, 1, IF Len(list) < n THEN Len(list) ELSE n)

\* profile.ts 170-180: one teammate; a failed Steam lookup is caught and the
\* teammate returned as it was.
EnrichTeammate(teammate, fetched) ==
  IF fetched THEN [teammate EXCEPT !.name = "steam"] ELSE teammate

\* profile.ts 168-185: every promise of the pass fulfils, so the filter on
\* fulfilled results keeps each mapped entry.
EnrichTeammates(list, failing) ==
  LET head == Slice(list, SliceLen)
  IN  [i \in 1 .. Len(head) |-> EnrichTeammate(head[i], head[i].id \notin failing)]

\* profile.ts 167: the handler reaches the pass with the merged leetify's
\* recent_teammates list.
EnterEnrichment(p) ==
  /\ req[p].pc = "idle"
  /\ \E list \in TeammateLists :
       req' = [req EXCEPT ![p] = [IdleReq EXCEPT !.kind = "profile",
                                                 !.pc = "teammates",
                                                 !.mates = list]]
  /\ ev' = NoEv
  /\ UNCHANGED <<now, redisUp, gateVars, profileKey, refreshKey, matchKey, refreshed>>

\* profile.ts 167-186: the pass; the Steam lookups of `failing` fail.
EnrichmentPass(p) ==
  /\ req[p].kind = "profile" /\ req[p].pc = "teammates"
  /\ \E failing \in SUBSET {req[p].mates[i].id : i \in 1 .. Len(req[p].mates)} :
       req' = [req EXCEPT ![p] =
                 [req[p] EXCEPT !.pc = "done", !.resp = "200", !.failed = failing,
                                !.mates = EnrichTeammates(req[p].mates, failing)]]
  /\ ev' = Event("enrich", p, TRUE, {}, {})
  /\ UNCHANGED <<now, redisUp, gateVars, profileKey, refreshKey, matchKey, refreshed>>

\* The teammate pass of GET /profile/:id on every list and failure pattern.
NextEnrich ==
  \/ EnterEnrichment(1)
  \/ EnrichmentPass(1)
  \/ Finish(1)

SpecEnrich == Init /\ [][NextEnrich]_vars

\* ------------------------------------------- the field-fetch fan-out
\* profile.ts 89-142: read the cache and launch one fetch per missing
\* field; nothing is awaited yet.  prof holds the local `cached`.
FetchLaunch(p) ==
  /\ req[p].kind = "profile" /\ req[p].pc = "cache"
  /\ LET r      == [req[p] EXCEPT !.access = Touch(req[p])]
         cached == GetProfile
         needs  == NeedsFetch(cached)
         keys   == needs \cap Keys
     IN  /\ req' = [req EXCEPT ![p] =
                      IF needs = {} THEN Respond(r, "200")
                      ELSE [r EXCEPT !.pc = "fetching", !.prof = cached,
                                     !.pending = keys,
                                     !.got = [k \in Keys |-> NotFetched]]]
         /\ ev' = Event("launch", p, redisUp, keys, {})
  /\ UNCHANGED <<now, redisUp, gateVars, profileKey, refreshKey, matchKey, refreshed>>

\* cache.ts 137-163, part_001 366-606: the upstream of fetch k answers or
\* fails and the promise settles.  No call carries a timeout, so a fetch
\* settles only when its upstream does.
FetchSettle(p, k, up) ==
  /\ req[p].kind = "profile" /\ req[p].pc = "fetching"
  /\ k \in req[p].pending
  /\ \E o \in UpstreamOf(up, k) :
       req' = [req EXCEPT ![p] = [req[p] EXCEPT !.pending = @ \ {k},
                                                !.got = [@ EXCEPT ![k] = o]]]
  /\ ev' = Event("settle", p, TRUE, {k}, {})
  /\ UNCHANGED <<now, redisUp, gateVars, profileKey, refreshKey, matchKey, refreshed>>

\* The merge, were it to go ahead once some of the fetches have settled.
MergeReadyOnAny(r) == r.pending # Keys

\* profile.ts 144: `await Promise.allSettled(fetchPromises)` resumes when
\* every launched fetch has settled.
MergeReady(r) == r.pending = {}

\* profile.ts 144-204: merge, teammate pass and build, after the await.
FetchMerge(p) ==
  /\ req[p].kind = "profile" /\ req[p].pc = "fetching"
  /\ MergeReady(req[p])
  /\ LET cached == req[p].prof
         needs  == NeedsFetch(cached)
         keys   == needs \cap Keys
         failed == {k \in keys : req[p].got[k].err}
     IN  /\ \E named \in BOOLEAN :
              LET profile == MergedProfile(cached, needs, req[p].got, named)
              IN  req' = [req EXCEPT ![p] =
                    IF ~Truthy(profile.steam) THEN Respond(req[p], "400")
                    ELSE [req[p] EXCEPT !.pc = "persist", !.prof = <<profile>>,
                                        !.failed = failed]]
         /\ ev' = Event("merge", p, TRUE, keys, failed)
  /\ UNCHANGED <<now, redisUp, gateVars, profileKey, refreshKey, matchKey, refreshed>>

\* GET /profile/:id with its fetches settling one by one, on a store that
\* stays up.
NextFanout ==
  \/ ReceiveProfile(1)
  \/ Health(1)
  \/ Rate(1)
  \/ FetchLaunch(1)
  \/ \E k \in Keys : FetchSettle(1, k, "answers")
  \/ FetchMerge(1)
  \/ Persist(1)
  \/ Finish(1)

\* The handler's own steps are taken when they can be; nothing makes an
\* upstream answer.
FanoutFairness ==
  /\ WF_vars(Health(1))
  /\ WF_vars(Rate(1))
  /\ WF_vars(FetchLaunch(1))
  /\ WF_vars(FetchMerge(1))
  /\ WF_vars(Persist(1))

SpecFanout == Init /\ [][NextFanout]_vars /\ FanoutFairness

\* ------------------------------------------------------- the client key
\* Strings are sequences of characters.  A connection address, a
\* User-Agent header (<<>>: none sent) and an X-Forwarded-For header, given
\* as the list of its comma-separated entries (<<>>: none sent).
MaxHops == 2
\* rate-limit.ts 44: the key is cut to 200 characters, here to KeyLimit.
KeyLimit == 3
Addresses == {<<"a">>, <<"b">>}
UserAgents == {<<>>, <<"u", "v">>}
ForwardedFors ==
  {<<>>} \cup UNION {[1 .. n -> Addresses] : n \in 1 .. MaxHops}

\* rate-limit.ts 37-45: getClientKey.
GetClientKey(ip, userAgent, forwardedFor) ==
  LET primaryIp  == IF forwardedFor # <<>> THEN forwardedFor[1] ELSE ip
      identifier == primaryIp \o <<":">> \o
                    (IF userAgent # <<>> THEN userAgent ELSE <<"unknown">>)
  IN  Slice(identifier, KeyLimit)

\* profile.ts 26-34: GET /profile/:id arrives over a connection and the
\* handler computes its client key.
ReceiveFrom(p) ==
  /\ req[p].pc = "idle"
  /\ \E ip \in Addresses, ua \in UserAgents, xff \in ForwardedFors :
       req' = [req EXCEPT ![p] =
                 [IdleReq EXCEPT !.kind = "profile", !.pc = "health",
                                 !.after = refreshed,
                                 !.ip = ip, !.ua = ua, !.xff = xff,
                                 !.key = GetClientKey(ip, ua, xff)]]
  /\ refreshed' = FALSE
  /\ ev' = NoEv
  /\ UNCHANGED <<now, redisUp, gateVars, profileKey, refreshKey, matchKey>>

\* Requests of several connections up to the admission gate, on a store
\* that can fail.
NextKey ==
  \/ RedisFails
  \/ RedisRecovers
  \/ \E p \in Procs : ReceiveFrom(p)
  \/ \E p \in Procs : Health(p)
  \/ \E p \in Procs : Finish(p)

SpecKey == Init /\ [][NextKey]_vars

\* GET /profile/:id, refresh and refresh-matches, one request at a time,
\* over time, on a store that can fail, for a profile every upstream knows.
NextTimed ==
  \/ Tick
  \/ RedisFails
  \/ RedisRecovers
  \/ ReceiveProfile(1)
  \/ ReceiveRefresh(1)
  \/ ReceiveRefreshMatches(1)
  \/ Health(1)
  \/ Rate(1)
  \/ ProfileCache(1, "found")
  \/ Persist(1)
  \/ RefreshCheck(1)
  \/ RefreshInvalidate(1)
  \/ RefreshRecord(1)
  \/ MatchesRead(1, "found")
  \/ MatchesWrite(1)
  \/ Finish(1)

SpecTimed == Init /\ [][NextTimed]_vars

\* ------------------------------------------------------------------ claims
Handlers == {"profile", "refresh", "refreshMatches", "match"}

\* The stored record holds field f as resolved (null or a value).
StoredResolved(f) == profileKey # <<>> /\ f \in DOMAIN profileKey[1]
\* The stored record holds field f as resolved-empty.
StoredEmpty(f) == StoredResolved(f) /\ profileKey[1][f] = "null"

AllowedIn(lo, hi) ==
  LET ts == {t \in Times : lo < t /\ t <= hi}
      RECURSIVE Sum(_)
      Sum(S) == IF S = {} THEN 0
                ELSE LET x == CHOOSE y \in S : TRUE IN allowedLog[x] + Sum(S \ {x})
  IN  Sum(ts)

\* C1: for every interleaving of concurrent checkAndRecordRequest calls on
\* one client key, among the calls whose timestamps lie in any rolling
\* window (u - WindowMs, u] at most MaxRequests returned allowed = true.
NoOvershoot == \A u \in Times : AllowedIn(u - WindowMs, u) <= MaxRequests

\* A step in which GET /profile/:id handled by p sees its probe fail.
ProbeFailureStep(p) ==
  /\ req[p].kind = "profile" /\ req[p].pc = "health"
  /\ ~redisUp
  /\ req'[p] # req[p]

\* C2: when the health probe of GET /profile/:id fails, the request ends
\* with 503 in that step, before checkAndRecordRequest or any cache or
\* cooldown access: the admission window, the cache record and the cooldown
\* marker are unchanged; and 503 is not the answer of a rate-limit
\* rejection, which is 429 and comes only from the gate step.
HealthGateFailsClosed ==
  /\ [][\A p \in Procs :
          ProbeFailureStep(p) =>
            /\ req'[p].pc = "done" /\ req'[p].resp = "503"
            /\ UNCHANGED <<rlSet, rlExpire, profileKey, refreshKey>>]_vars
  /\ [](\A p \in Procs :
          /\ (req[p].kind = "profile" /\ req[p].resp = "503") =>
               (req[p].access = "none" /\ req[p].probes = 1)
          /\ (req[p].kind = "profile" /\ req[p].resp = "429") =>
               req[p].access = "probed")
\* A GET /profile/:id answered 503 while the client has a window entry,
\* the profile is cached and a cooldown marker is set.
HealthGateWitness ==
  \E p \in Procs :
    /\ req[p].kind = "profile" /\ req[p].resp = "503"
    /\ rlSet # {} /\ profileKey # <<>> /\ refreshKey # 0

\* C3: every inbound request handler invokes the health probe exactly once,
\* and before its first admission, cooldown or cache access.
ProbedOnceBeforeAccess ==
  \A p \in Procs :
    req[p].kind \in Handlers =>
      /\ req[p].access # "unprobed"
      /\ req[p].probes <= 1
      /\ (req[p].access = "probed" => req[p].probes = 1)

\* C4: a store error while checkAndRecordRequest executes ends
\* GET /profile/:id with the service-degraded outcome of a failed health
\* probe (503), with no cache access and no upstream fetch.
GateErrorIsDegraded ==
  (ev.type = "rate" /\ ~ev.ok) =>
    (req[ev.p].pc = "done" /\ req[ev.p].resp = "503")

\* C5: when the store fails after the health probe succeeded, so that the
\* cache read or write of GET /profile/:id fails, the request ends with the
\* StoreUnavailable outcome (503): no fetcher is invoked because of the
\* failed read and no success response is returned.
CacheErrorIsDegraded ==
  (ev.type \in {"cache", "persist"} /\ ~ev.ok) =>
    (ev.fetched = {} /\ req[ev.p].pc = "done" /\ req[ev.p].resp = "503")

\* C6: canRefresh never answers allowed when the cooldown marker could not
\* be read: a store error during the check rejects the forced refresh.
CooldownFailsClosed ==
  (ev.type = "canRefresh" /\ ~ev.ok) => req[ev.p].pc # "invalidate"

\* C7: while the stored record holds an optional field as resolved-empty,
\* no GET /profile/:id invokes that field's upstream fetcher.
EmptyNeverRefetched ==
  ev.type = "cache" => \A f \in Fields : StoredEmpty(f) => f \notin ev.fetched

\* C8: when the fetch of a field fails (error or timeout), the record
\* GET /profile/:id persists leaves that field absent; it is not stored as
\* resolved-empty.
FailedFetchStaysAbsent ==
  (ev.type = "persist" /\ ev.ok) => \A f \in ev.failed : ~StoredResolved(f)

\* C9: no writer of the profile record makes a resolved field absent; only
\* invalidateProfile (or the record's expiry) does.
ResolvedStaysResolved ==
  [][\A f \in Fields :
       (StoredResolved(f) /\ ev'.type # "invalidate") => StoredResolved(f)']_vars

\* C10: the first GET /profile/:id that arrives after a successful
\* POST /profile/:id/refresh finds no record and fetches every field, in
\* every interleaving with requests that were in flight at the refresh.
RefreshForcesRefetch ==
  (ev.type = "cache" /\ req[ev.p].after) => ev.fetched = Keys

\* A cooldown marker written less than CooldownMs ago is stored.
MarkerLive == refreshKey # 0 /\ now - refreshKey < CooldownMs

\* C11: for each profile at most one POST /profile/:id/refresh succeeds
\* within any cooldown interval, in every interleaving of concurrent refresh
\* requests: no refresh invalidates the cache while the marker that an earlier
\* successful refresh wrote less than CooldownMs ago is stored.
OneRefreshPerCooldown ==
  [][\A p \in Procs :
       (req[p].kind = "refresh" /\ req[p].pc = "invalidate"
          /\ req'[p].pc = "setRefresh")
         => ~MarkerLive]_vars

\* C12: immediately after setLastRefreshTime, canRefresh answers
\* allowed = false with a wait equal to the cooldown; at every instant before
\* the cooldown has elapsed it answers allowed = false with a positive wait;
\* once the marker has gone it answers allowed = true.
CooldownHolds ==
  /\ ev.type = "setRefresh" =>
       (~CanRefresh.allowed /\ CanRefresh.waitTime = CooldownMs)
  /\ MarkerLive => (~CanRefresh.allowed /\ CanRefresh.waitTime > 0)
  /\ refreshKey = 0 => CanRefresh.allowed
\* The same with the store reachable at the time of the two calls.
CooldownHoldsStoreUp ==
  /\ (ev.type = "setRefresh" /\ ev.ok /\ redisUp) =>
       (~CanRefresh.allowed /\ CanRefresh.waitTime = CooldownMs)
  /\ (MarkerLive /\ redisUp) => (~CanRefresh.allowed /\ CanRefresh.waitTime > 0)
  /\ refreshKey = 0 => CanRefresh.allowed

\* The script denies the request that p is about to send to the gate.
GateDenies(p) ==
  ~LuaScript(rlSet, req[p].t, req[p].t - WindowMs, MaxRequests, 0).allowed
\* The gate step of a GET /profile/:id handled by p, the store answering.
GateStep(p) ==
  /\ req[p].kind = "profile" /\ req[p].pc = "rate"
  /\ redisUp
  /\ req'[p] # req[p]

\* C13: a request the gate denied and a verified token let through leaves
\* the client's window as it was: every entry inside the window stays, none
\* is added, the key's TTL and the count are not reset, and a later request
\* stamped while those entries are still inside the window is denied again.
TokenLeavesWindow ==
  [][\A p \in Procs :
       (GateStep(p) /\ GateDenies(p) /\ req[p].tok = "valid") =>
         LET t == req[p].t
         IN  /\ \A e \in rlSet : Score(e) > t - WindowMs => e \in rlSet'
             /\ rlSet' \subseteq rlSet
             /\ rlExpire' = rlExpire
             /\ ZCount(rlSet', t - WindowMs) >= MaxRequests
             /\ \A t2 \in Times, d \in Rnd :
                  (t2 >= t /\ t2 - WindowMs < OldestScore(rlSet', t2))
                    => ~LuaScript(rlSet', t2, t2 - WindowMs, MaxRequests, d).allowed]_vars
\* A denied request went on to the cache on the strength of its token.
TokenLeavesWindowWitness ==
  /\ ev.type = "rateDenied"
  /\ req[ev.p].pc = "cache"
  /\ Cardinality(rlSet) >= MaxRequests

\* C14: a GET /profile/:id that the gate denied or the spam signal flagged
\* reaches the cache only with a token that verified; without a token it ends
\* in 429, with a token that does not verify in a rejection (400).
ChallengeRequired ==
  [][\A p \in Procs :
       (GateStep(p) /\ (GateDenies(p) \/ req[p].spam)) =>
         /\ req[p].tok = "none" => (req'[p].pc = "done" /\ req'[p].resp = "429")
         /\ req[p].tok = "invalid" => (req'[p].pc = "done" /\ req'[p].resp = "400")
         /\ req'[p].pc = "cache" => req[p].tok = "valid"]_vars
\* A denied request without a token was answered 429.
ChallengeRequiredWitness ==
  /\ ev.type = "rateDenied"
  /\ req[ev.p].pc = "done" /\ req[ev.p].resp = "429"

\* The step in which the store runs the script of caller c and c gets the
\* result; Returned(c): c holds the result of a call.
EvalStep(c) == call[c].pc = "sent" /\ call'[c].pc = "idle"
Returned(c) == call[c].pc = "idle" /\ call[c].t # 0

\* C15: a checkAndRecordRequest call that answers allowed = false records
\* nothing: the set afterwards is the set before less entries at or before
\* windowStart, and the key's TTL is the same.
DeniedRecordsNothing ==
  [][\A c \in Callers :
       (EvalStep(c) /\ ~call'[c].res.allowed) =>
         /\ rlSet' \subseteq rlSet
         /\ \A e \in rlSet \ rlSet' : Score(e) <= call[c].t - WindowMs
         /\ rlExpire' = rlExpire]_vars
\* A call was denied.
DeniedRecordsNothingWitness ==
  \E c \in Callers :
    Returned(c) /\ ~call[c].res.allowed /\ call[c].res.total = MaxRequests

\* Every recorded request is older than the window of the call c sent.
AllStale(c) ==
  rlSet # {} /\ \A e \in rlSet : Score(e) < call[c].t - WindowMs

\* C16: when more than WindowMs has passed since the client's last recorded
\* request and none arrived in between, the next checkAndRecordRequest
\* answers allowed = true and currentCount = 0.
StaleWindowCountsZero ==
  [][\A c \in Callers :
       (EvalStep(c) /\ AllStale(c)) =>
         (call'[c].res.allowed /\ call'[c].res.currentCount = 0)]_vars
\* C16 (amended): ... the next checkAndRecordRequest answers allowed = true
\* and currentCount = 1: the request itself is the only entry left, no
\* earlier entry survives or is counted.
StaleWindowCountsOne ==
  [][\A c \in Callers :
       (EvalStep(c) /\ AllStale(c)) =>
         /\ call'[c].res.allowed
         /\ call'[c].res.currentCount = 1
         /\ call'[c].res.remaining = MaxRequests - 1
         /\ Cardinality(rlSet') = 1
         /\ \A e \in rlSet' : Score(e) = call[c].t]_vars
\* A request was recorded at instant 1, none after it, and a call stamped
\* more than WindowMs later was answered.
StaleWindowWitness ==
  \E c \in Callers :
    /\ Returned(c) /\ call[c].t > 1 + WindowMs
    /\ call[c].res.allowed /\ call[c].res.currentCount = 1
    /\ allowedLog[1] > 0
    /\ \A u \in Times : (1 < u /\ u < call[c].t) => allowedLog[u] = 0

\* C17: whenever checkAndRecordRequest answers allowed = false, the reset
\* time it returns lies in [now, now + WindowMs], now being the timestamp of
\* that call, also when calls reach the store out of timestamp order.
ResetTimeInWindow ==
  \A c \in Callers :
    (Returned(c) /\ ~call[c].res.allowed) =>
      (call[c].t <= call[c].res.resetTime
         /\ call[c].res.resetTime <= call[c].t + WindowMs)

\* C18: of the requests a client issues within one instant (the profile
\* limits: MaxRequests per WindowMs), the first MaxRequests are allowed and
\* the next one is denied with remaining = 0.
BurstAdmitsLimit ==
  now = 1 =>
    /\ allowedLog[1] <= MaxRequests
    /\ \A c \in Callers :
         (Returned(c) /\ ~call[c].res.allowed) =>
           (call[c].res.remaining = 0 /\ allowedLog[1] >= MaxRequests)

\* C19: the script prunes exactly the entries strictly older than
\* windowStart: an entry stamped windowStart survives and is counted, and
\* the count the decision uses is the number of recorded requests stamped at
\* or after now - WindowMs.
PruneStrictlyOlder ==
  [][\A c \in Callers :
       EvalStep(c) =>
         LET ws   == call[c].t - WindowMs
             live == {e \in rlSet : Score(e) >= ws}
             used == call'[c].res.currentCount
                       - (IF call'[c].res.allowed THEN 1 ELSE 0)
         IN  /\ live \subseteq rlSet'
             /\ \A e \in rlSet \ rlSet' : Score(e) < ws
             /\ used = Cardinality(live)]_vars

\* C20: when the client key has no surviving entry, the reset time reported
\* equals now, the timestamp of the call: by getRateLimitStatus, and by
\* checkAndRecordRequest when it records nothing.
EmptyWindowResetsNow ==
  [][\A c \in Callers :
       /\ (call[c].pc = "statusCounted" /\ call'[c].pc = "idle" /\ rlSet = {})
            => call'[c].res.resetTime = call[c].t
       /\ (EvalStep(c) /\ rlSet' = {})
            => call'[c].res.resetTime = call[c].t]_vars

\* The stored record holds steam and every optional field as resolved.
StoredAllResolved ==
  /\ profileKey # <<>>
  /\ StoredResolved("steam") /\ Truthy(profileKey[1].steam)
  /\ \A f \in Fields : StoredResolved(f)

\* C21: when every field of the cached record is resolved, GET /profile/:id
\* answers from the cache alone: it fetches nothing upstream, runs no
\* teammate enrichment and goes on to no write of the cache or the database.
ResolvedServedFromCache ==
  (ev.type = "cache" /\ ev.ok /\ StoredAllResolved)
    => (ev.fetched = {} /\ req[ev.p].pc = "done" /\ req[ev.p].resp = "200")

\* profile.ts 90-204 run once more on the store as it is: the record the
\* next GET /profile/:id round builds when fetcher k, if invoked, settles
\* with answers[k].
NextRoundProfile(answers, named) ==
  LET cached == GetProfile
      needs  == NeedsFetch(cached)
      out    == [k \in Keys |-> IF k \in needs THEN answers[k] ELSE NotFetched]
  IN  MergedProfile(cached, needs, out, named)

\* C22: merging accumulates across rounds: after a GET round in which some
\* fetches failed has persisted its record, a later round in which the
\* upstreams answer yields a record where every field that failed before
\* carries the freshly fetched outcome and every other field keeps the
\* outcome the earlier round stored.
MergeAccumulates ==
  (ev.type = "persist" /\ ev.ok) =>
    \A answers \in Settled(Keys, "found"), named \in BOOLEAN :
      LET profile == NextRoundProfile(answers, named)
      IN  \A f \in Fields :
            IF f \in ev.failed
              THEN Truthy(profile[f]) /\
                   (f # "leetify" => profile[f] = answers[f].v)
              ELSE StoredResolved(f) =>
                   Truthy(profile[f]) = Truthy(profileKey[1][f])

\* C23: the teammate enrichment pass never drops an entry: for every list
\* of recent teammates and every pattern of failed lookups, the list it
\* leaves has the same entries as the input, and each entry whose lookup
\* failed keeps exactly its original fields.
EnrichmentKeepsEntries ==
  [][\A p \in Procs :
       (req[p].pc = "teammates" /\ req'[p].pc = "done") =>
         /\ Len(req'[p].mates) = Len(req[p].mates)
         /\ \A i \in 1 .. Len(req[p].mates) :
              /\ req'[p].mates[i].id = req[p].mates[i].id
              /\ req[p].mates[i].id \in req'[p].failed
                   => req'[p].mates[i] = req[p].mates[i]]_vars

\* C24: a rejection of the database writes (upsertUser, incrementStat) does
\* not fail GET /profile/:id: whatever the database answers, the persist
\* step stores the merged record in the cache and the response is a
\* success.
DatabaseFailureNotFatal ==
  [][\A p \in Procs :
       (req[p].kind = "profile" /\ req[p].pc = "persist" /\ req'[p].pc = "done"
          /\ redisUp)
         => (req'[p].resp = "200" /\ profileKey' # <<>>
               /\ profileKey'[1] = Stringify(req[p].prof[1]))]_vars

\* C25: GET /profile/:id fails for lack of data only when every field fetch
\* failed and there is no cached record; when at least one field was
\* resolved, fresh or cached, the fetch-and-merge step does not fail the
\* request.
FailsOnlyWithoutData ==
  (ev.type = "cache" /\ ev.ok /\ req[ev.p].pc = "done" /\ req[ev.p].resp = "400")
    => (ev.failed = Keys /\ profileKey = <<>>)

\* C26: every GET /profile/:id request eventually gets a response while the
\* store responds, even when an upstream fetcher never returns.
ProfileRequestResponds ==
  (req[1].kind = "profile" /\ req[1].pc = "health") ~> (req[1].pc = "done")

\* C29: the merge and persist of GET /profile/:id start only after every
\* field fetch the request launched has settled: no request is past its
\* merge, about to write the record, while one of its fetches is
\* outstanding, and each fetched field of the record it is about to write
\* is the settled outcome.
PersistAfterAllSettled ==
  \A p \in Procs :
    (req[p].kind = "profile" /\ req[p].pc = "persist") =>
      /\ req[p].pending = {}
      /\ \A k \in Fields \ {"leetify"} :
           req[p].got[k] # NotFetched => req[p].prof[1][k] = req[p].got[k].v

\* A request is about to persist a record merged from several settled
\* fetches.
PersistAfterAllSettledWitness ==
  /\ req[1].kind = "profile" /\ req[1].pc = "persist"
  /\ req[1].pending = {}
  /\ \A k \in Keys : req[1].got[k] # NotFetched

\* C27: the client key cannot be changed by varying proxy headers: two
\* requests from the same connection address with the same user agent get
\* the same key, whatever X-Forwarded-For each of them carries.
KeyIgnoresForwardedFor ==
  \A p, q \in Procs :
    (req[p].key # <<>> /\ req[q].key # <<>>
       /\ req[p].ip = req[q].ip /\ req[p].ua = req[q].ua)
      => req[p].key = req[q].key

\* C28: a profile record is no longer served from the cache DocTtl (5
\* minutes) after it was written, unless it was written again in between:
\* a GET /profile/:id that reads the cache finds only a record younger
\* than that.
ProfileExpiresAsDocumented ==
  (ev.type = "cache" /\ ev.ok /\ profileKey # <<>>) => now < WrittenAt + DocTtl

\* C30: the cooldown marker of an entity changes in two ways only: the last
\* step of an allowed POST refresh writes a fresh marker (the current time,
\* living CooldownMs), or the marker expires when its CooldownMs are over.
\* Nothing deletes it, and GET /profile, refresh-matches, the match route
\* and the admission gate leave it alone.
MarkerWrittenOrExpired ==
  [][/\ refreshKey' # refreshKey =>
          \/ /\ \E p \in Procs : /\ req[p].kind = "refresh"
                                 /\ req[p].pc = "setRefresh"
                                 /\ req'[p].pc = "done"
             /\ refreshKey' = now
          \/ /\ now' = now + 1
             /\ refreshKey' = 0
             /\ refreshKey + CooldownMs = now'
     /\ refreshKey' # 0 => now' < refreshKey' + CooldownMs]_vars

\* An allowed refresh has just written the marker, at a time by which a
\* marker written at the start has expired.
MarkerWrittenWitness ==
  /\ ev.type = "setRefresh" /\ ev.ok
  /\ refreshKey = now /\ now > CooldownMs

\* The value of field k in a stored record ("undefined": the key is absent).
StoredValue(key, k) == IF k \in DOMAIN key[1] THEN key[1][k] ELSE "undefined"

\* C31: POST /profile/:id/refresh-matches changes only faceit and leetify
\* and never downgrades them: the record it builds from the cached one
\* differs from it in these two fields at most, and only by fresh data; a
\* failed or empty fetch keeps the cached state; the write stores exactly
\* that record; with no cached record it answers 404, fetches nothing and
\* writes nothing.
RefreshMatchesFrame ==
  [][\A p \in Procs :
       /\ (req[p].kind = "refreshMatches" /\ req[p].pc = "rmRead"
             /\ req'[p].pc = "rmWrite") =>
            /\ profileKey # <<>> /\ profileKey' = profileKey
            /\ \A k \in Keys :
                 LET old == StoredValue(profileKey, k)
                     new == StoredValue(<<Stringify(req'[p].prof[1])>>, k)
                 IN  new # old => (k \in {"faceit", "leetify"} /\ Truthy(new))
       /\ (req[p].kind = "refreshMatches" /\ req[p].pc = "rmRead"
             /\ ev'.type = "rmRead" /\ ev'.p = p /\ GetProfile = <<>>) =>
            /\ req'[p].pc = "done" /\ req'[p].resp = "404"
            /\ ev'.fetched = {} /\ profileKey' = profileKey
       /\ (req[p].kind = "refreshMatches" /\ req[p].pc = "rmWrite"
             /\ req'[p].pc = "done") =>
            \/ profileKey' = profileKey
            \/ profileKey'[1] = Stringify(req[p].prof[1])]_vars

\* Refresh-matches has read a record with faceit data and named teammates
\* and is about to write one whose leetify is the fresh, different data.
RefreshMatchesWitness ==
  /\ ev.type = "rmRead" /\ req[ev.p].pc = "rmWrite"
  /\ StoredResolved("faceit") /\ StoredResolved("leetify")
  /\ profileKey[1].leetify = "tm_named"
  /\ req[ev.p].prof[1].leetify = "tm_plain"
  /\ req[ev.p].prof[1].faceit = profileKey[1].faceit

\* The entries of the window of a call stamped t: those newer than t - WindowMs.
InWindow(zset, t) == {e \in zset : Score(e) > t - WindowMs}

\* C32: every result of checkAndRecordRequest is consistent: allowed is true
\* exactly when the count after pruning was below the limit, total is the
\* limit, remaining = max(0, total - currentCount), and an allowed result
\* has 1 <= currentCount <= total, the count including the request itself.
ResultConsistent ==
  [][\A c \in Callers :
       EvalStep(c) =>
         LET res   == call'[c].res
             count == Cardinality(InWindow(rlSet, call[c].t))
         IN  /\ res.allowed <=> count < MaxRequests
             /\ res.total = MaxRequests
             /\ res.remaining = (IF res.total > res.currentCount
                                   THEN res.total - res.currentCount ELSE 0)
             /\ res.currentCount = (IF res.allowed THEN count + 1 ELSE count)
             /\ res.allowed => (1 <= res.currentCount /\ res.currentCount <= res.total)]_vars

\* A call was allowed as the last one the window has room for, and another
\* was denied.
ResultConsistentWitness ==
  \E c, d \in Callers :
    /\ Returned(c) /\ call[c].res.allowed
    /\ call[c].res.currentCount = MaxRequests /\ call[c].res.remaining = 0
    /\ Returned(d) /\ ~call[d].res.allowed

\* Process p hands its record to setProfile in this step.
WritesProfile(p) ==
  /\ req[p].pc \in {"persist", "rmWrite", "wWrite"}
  /\ req'[p].pc = "done"

\* C33: setProfile followed by getProfile preserves the tri-state of every
\* optional field: a null is read back as null, a value as that value, and
\* an absent (undefined) field as absent, never as null.
RoundTripKeepsTriState ==
  [][\A p \in Procs :
       WritesProfile(p) =>
         /\ GetProfile' # <<>>
         /\ \A k \in Fields : GetProfile'[1][k] = req[p].prof[1][k]]_vars

\* The worker has stored a record with faceit data and no rank fields, read
\* back with the ranks absent.
RoundTripAbsentWitness ==
  /\ ev.type = "wWrite" /\ ev.ok
  /\ GetProfile # <<>>
  /\ Truthy(GetProfile[1].faceit)
  /\ GetProfile[1].premier = "undefined"

\* C34: every allowed checkAndRecordRequest adds one entry of its own: the
\* number of live entries of the window grows by exactly one, also when
\* another request of the same client key arrived in the same millisecond.
AllowedAddsOneEntry ==
  [][\A c \in Callers :
       (EvalStep(c) /\ call'[c].res.allowed) =>
         Cardinality(rlSet') = Cardinality(InWindow(rlSet, call[c].t)) + 1]_vars

\* C35: a POST /profile/:id/refresh that the cooldown rejects (429) writes
\* nothing: the cached record stays as it is and the marker keeps its
\* timestamp and with it its expiry, so denied attempts never extend the
\* wait.
DeniedRefreshWritesNothing ==
  [][\A p \in Procs :
       (req[p].kind = "refresh" /\ req[p].pc # "done"
          /\ req'[p].pc = "done" /\ req'[p].resp = "429")
         => UNCHANGED <<profileKey, refreshKey, matchKey, rlSet, rlExpire>>]_vars

\* A refresh was just rejected by a live marker while a record is cached.
DeniedRefreshWitness ==
  /\ ev.type = "canRefresh" /\ ev.ok
  /\ req[ev.p].pc = "done" /\ req[ev.p].resp = "429"
  /\ profileKey # <<>> /\ refreshKey # 0

\* C36: every profile record in the cache holds steam data: no writer (GET
\* /profile, refresh-matches, the background worker) persists a record
\* without it.
StoredRecordHasSteam ==
  profileKey # <<>> => (StoredResolved("steam") /\ Truthy(profileKey[1].steam))

\* GET /profile has persisted a record in a round in which a fetch failed.
StoredRecordHasSteamWitness ==
  /\ ev.type = "persist" /\ ev.ok /\ ev.failed # {}
  /\ profileKey # <<>> /\ Truthy(StoredValue(profileKey, "steam"))

\* C37: the TTL of the rate-limit key never evicts an entry that is still
\* inside the rolling window: while a recorded timestamp is newer than
\* now - WindowMs, the key exists and holds an entry with that timestamp.
TtlOutlivesWindow ==
  \A t \in Times :
    (allowedLog[t] > 0 /\ t > now - WindowMs) => \E e \in rlSet : Score(e) = t

\* The key of a client that recorded a request and then went idle has
\* expired: the request was allowed and no entry is left.
TtlOutlivesWindowWitness ==
  /\ rlSet = {} /\ rlExpire = 0
  /\ \E t \in Times : allowedLog[t] > 0

\* C38: POST /profile/:id/refresh answers success only if the cached record
\* was deleted and the cooldown marker written: after a successful refresh
\* no record is cached and the marker carries the time of the refresh.
RefreshSuccessIsReal ==
  (ev.type = "setRefresh" /\ req[ev.p].pc = "done" /\ req[ev.p].resp = "200")
    => (profileKey = <<>> /\ refreshKey = now)

\* C39: reads never extend the lifetime of a record: a GET /profile/:id
\* that found every field of the cached record resolved, fetched nothing
\* and has no new data to store leaves the expiry of the record as it is,
\* so the record is evicted within the cache TTL of the last write that
\* carried fresh data.
ReadsKeepExpiry ==
  [][\A p \in Procs :
       (/\ ev.type = "cache" /\ ev.p = p /\ ev.ok /\ ev.fetched = {}
        /\ StoredAllResolved
        /\ req[p].kind = "profile" /\ req[p].pc = "persist"
        /\ Stringify(req[p].prof[1]) = profileKey[1]
        /\ req'[p].pc = "done")
         => (profileKey' # <<>> /\ profileKey'[2] = profileKey[2])]_vars

\* C40: a completed refresh-matches update is not lost to a concurrent
\* writer: when a refresh-matches has just written the record, another
\* refresh-matches that read the record before that write does not replace
\* the faceit or leetify data now stored by the empty state it read.
RefreshMatchesNotLost ==
  [][\A p \in Procs :
       (/\ ev.type = "rmWrite" /\ ev.ok /\ ev.p # p
        /\ req[p].kind = "refreshMatches" /\ req[p].pc = "rmWrite"
        /\ req'[p].pc = "done")
         => \A k \in {"faceit", "leetify"} :
              Truthy(StoredValue(profileKey, k))
                => (profileKey' # <<>> /\ Truthy(StoredValue(profileKey', k)))]_vars

====
